---- MODULE Spec2Model ----
(***************************************************************************)
(* Model of server.js: the POST /SubmitCase handler (validation, PDF       *)
(* generation, mail hand-off, catch block) and the two renderers           *)
(* generatePdf and generateEmailHtml.                                      *)
(*                                                                         *)
(* A JavaScript string is a sequence of atoms.  An atom is one character   *)
(* (field keys and labels are spelled character by character, so that      *)
(* formatFieldName works on the letters) or one indivisible piece of text  *)
(* (a date text such as "2024-05-10", a word of an error message).         *)
(* A JavaScript object is a function; a property that is not in its        *)
(* DOMAIN reads as undefined.                                              *)
(***************************************************************************)
EXTENDS Integers, Sequences, FiniteSets, TLC

VARIABLES
    req,        \* the request: [body, files] as multer hands it to the handler
    pc,         \* position of the handler
    formData,   \* const formData = sanitizeInput(req.body)
    files,      \* const files = req.files || []
    clock,      \* the Date the handler read: [now, tz, today]
    steps,      \* the validation steps that ran, in order
    pdfCalls,   \* the arguments generatePdf was invoked with, in order
    pdfBytes,   \* const pdfBytes = await generatePdf(formData)
    html,       \* generateEmailHtml(formData)
    sent,       \* the mailOptions transporter.sendMail was invoked with, in order
    accepted,   \* number of sendMail invocations that resolved
    error,      \* the value caught by catch (error)
    responses   \* the responses sent through res, in order

vars == <<req, pc, formData, files, clock, steps, pdfCalls, pdfBytes, html,
          sent, accepted, error, responses>>

-----------------------------------------------------------------------------
(* Bounds of the model *)

\* most required fields that one request leaves blank
MaxMissing == 2
\* most files in one request of the attachment family (multer allows 5)
MaxFiles == 2

-----------------------------------------------------------------------------
(* Characters and strings *)

UpperCase == {"A","B","C","D","E","F","G","H","I","J","K","L","M",
              "N","O","P","Q","R","S","T","U","V","W","X","Y","Z"}

WhiteSpace == {" ", "\t"}

toUpperCase(c) ==
    CASE c = "a" -> "A" [] c = "b" -> "B" [] c = "c" -> "C" [] c = "d" -> "D"
      [] c = "e" -> "E" [] c = "f" -> "F" [] c = "g" -> "G" [] c = "h" -> "H"
      [] c = "i" -> "I" [] c = "j" -> "J" [] c = "k" -> "K" [] c = "l" -> "L"
      [] c = "m" -> "M" [] c = "n" -> "N" [] c = "o" -> "O" [] c = "p" -> "P"
      [] c = "q" -> "Q" [] c = "r" -> "R" [] c = "s" -> "S" [] c = "t" -> "T"
      [] c = "u" -> "U" [] c = "v" -> "V" [] c = "w" -> "W" [] c = "x" -> "X"
      [] c = "y" -> "Y" [] c = "z" -> "Z" [] OTHER -> c

RECURSIVE trimStart(_)
trimStart(s) ==
    IF s # <<>> /\ Head(s) \in WhiteSpace THEN trimStart(Tail(s)) ELSE s

RECURSIVE trimEnd(_)
trimEnd(s) ==
    IF s # <<>> /\ s[Len(s)] \in WhiteSpace
    THEN trimEnd(SubSeq(s, 1, Len(s) - 1))
    ELSE s

\* String.prototype.trim
trim(s) == trimEnd(trimStart(s))

\* sanitizeInput without the trim
sanitizeInput_NoTrim(data) == data

\* sanitizeInput: every value of the model is a string, so every entry takes
\* the typeof value === 'string' branch
sanitizeInput(data) == [key \in DOMAIN data |-> trim(data[key])]

\* field.replace(/([A-Z])/g, ' $1')
RECURSIVE replaceUpper(_)
replaceUpper(field) ==
    IF field = <<>> THEN <<>>
    ELSE (IF Head(field) \in UpperCase THEN <<" ", Head(field)>> ELSE <<Head(field)>>)
         \o replaceUpper(Tail(field))

\* result.charAt(0).toUpperCase() + result.slice(1)
formatFieldName(field) ==
    LET result == replaceUpper(field)
    IN  IF result = <<>> THEN <<>>
        ELSE <<toUpperCase(Head(result))>> \o Tail(result)

\* formData[field] is truthy: the property exists and is not the empty string
Truthy(data, field) == field \in DOMAIN data /\ data[field] # <<>>

-----------------------------------------------------------------------------
(* Field keys *)

patientName == <<"p","a","t","i","e","n","t","N","a","m","e">>
birthDate == <<"b","i","r","t","h","D","a","t","e">>
surgeryDate == <<"s","u","r","g","e","r","y","D","a","t","e">>
expeditedRequest == <<"e","x","p","e","d","i","t","e","d","R","e","q","u","e","s","t">>
surgicalGuideType == <<"s","u","r","g","i","c","a","l","G","u","i","d","e","T","y","p","e">>
numberOfImplants == <<"n","u","m","b","e","r","O","f","I","m","p","l","a","n","t","s">>
implantSystem == <<"i","m","p","l","a","n","t","S","y","s","t","e","m">>
implantPositions == <<"i","m","p","l","a","n","t","P","o","s","i","t","i","o","n","s">>
implantDimensions == <<"i","m","p","l","a","n","t","D","i","m","e","n","s","i","o","n","s">>
tissueFlapType == <<"t","i","s","s","u","e","F","l","a","p","T","y","p","e">>
doctorName == <<"d","o","c","t","o","r","N","a","m","e">>
doctorLicense == <<"d","o","c","t","o","r","L","i","c","e","n","s","e">>
doctorPhone == <<"d","o","c","t","o","r","P","h","o","n","e">>
doctorAddress == <<"d","o","c","t","o","r","A","d","d","r","e","s","s">>
doctorCity == <<"d","o","c","t","o","r","C","i","t","y">>
doctorState == <<"d","o","c","t","o","r","S","t","a","t","e">>
doctorZip == <<"d","o","c","t","o","r","Z","i","p">>
submitterName == <<"s","u","b","m","i","t","t","e","r","N","a","m","e">>
fileLink == <<"f","i","l","e","L","i","n","k">>

requiredFields ==
    << patientName, birthDate, surgeryDate,
       expeditedRequest, surgicalGuideType, numberOfImplants,
       implantSystem, implantPositions, implantDimensions, tissueFlapType,
       doctorName, doctorLicense, doctorPhone, doctorAddress, doctorCity,
       doctorState, doctorZip,
       submitterName >>

\* requiredFields.filter(field => !formData[field])
missingFieldsOf(data) == SelectSeq(requiredFields, LAMBDA field : ~Truthy(data, field))

-----------------------------------------------------------------------------
(* Dates.  A time value is a number of hours since 2024-05-10T00:00Z, or   *)
(* NaN (an Invalid Date).  tz is the server's offset in hours, local time  *)
(* being UTC + tz.                                                         *)

NaN == [valid |-> FALSE, t |-> 0]
Time(t) == [valid |-> TRUE, t |-> t]

\* the date texts of the model: the calendar day they name (2024-05-10 is
\* day 0), the hour of the date-time forms, and whether the text is the
\* date-only ISO form (which Date.parse reads as UTC midnight) or the
\* date-time form without offset (which it reads as local time)
DateTexts == {"2014-05-10", "2024-05-09", "2024-05-10", "2024-05-11", "2024-06-09",
              "2024-05-09T23:00", "2024-05-10T00:00", "2024-05-10T13:00",
              "2024-05-11T00:00"}

DateOnly(text) == text \in {"2014-05-10", "2024-05-09", "2024-05-10", "2024-05-11",
                            "2024-06-09"}

DayOf(text) ==
    CASE text = "2014-05-10" -> -3653
      [] text = "2024-05-09" -> -1
      [] text = "2024-05-10" -> 0
      [] text = "2024-05-11" -> 1
      [] text = "2024-06-09" -> 30
      [] text = "2024-05-09T23:00" -> -1
      [] text = "2024-05-10T00:00" -> 0
      [] text = "2024-05-10T13:00" -> 0
      [] text = "2024-05-11T00:00" -> 1

HourOf(text) ==
    CASE text = "2024-05-09T23:00" -> 23
      [] text = "2024-05-10T13:00" -> 13
      [] OTHER -> 0

\* new Date(string)
newDate(s, tz) ==
    IF Len(s) = 1 /\ s[1] \in DateTexts
    THEN IF DateOnly(s[1])
         THEN Time(DayOf(s[1]) * 24)
         ELSE Time(DayOf(s[1]) * 24 + HourOf(s[1]) - tz)
    ELSE NaN

\* date.setHours(0, 0, 0, 0): midnight of the local day of t
setHoursZero(t, tz) == Time(((t + tz) \div 24) * 24 - tz)

\* a >= b and a <= b on Date objects; false when either is NaN
GreaterEq(a, b) == a.valid /\ b.valid /\ a.t >= b.t
LessEq(a, b) == a.valid /\ b.valid /\ a.t <= b.t

\* the clock values of the model and the server's possible offsets
NowHours == {3, 12, 21}
TZOffsets == {-5, 0, 5}

NoClock == [now |-> 0, tz |-> 0, today |-> NaN]

-----------------------------------------------------------------------------
(* Uploaded files *)

\* the allow-list without its last entry
allowedTypes_NoPng ==
    << "application/octet-stream",
       "application/dicom",
       "application/pdf",
       "image/jpeg" >>

allowedTypes ==
    << "application/octet-stream",
       "application/dicom",
       "application/pdf",
       "image/jpeg",
       "image/png" >>

\* array.includes(x)
includes(seq, x) == \E i \in 1..Len(seq) : seq[i] = x

\* files.filter(file => !allowedTypes.includes(file.mimetype))
invalidFilesOf(fs) == SelectSeq(fs, LAMBDA file : ~includes(allowedTypes, file.mimetype))

\* the files a request of the model may carry
FileSet ==
    { [originalname |-> "scan.dcm",   mimetype |-> "application/dicom",        buffer |-> "bytes-1"],
      [originalname |-> "photo.png",  mimetype |-> "image/png",                buffer |-> "bytes-2"],
      [originalname |-> "report.pdf", mimetype |-> "application/pdf",          buffer |-> "bytes-3"],
      [originalname |-> "setup.exe",  mimetype |-> "application/x-msdownload", buffer |-> "bytes-4"],
      [originalname |-> "scan.dcm",   mimetype |-> "text/html",                buffer |-> "bytes-5"] }

SeqsUpTo(S, n) == UNION { [1..k -> S] : k \in 0..n }

-----------------------------------------------------------------------------
(* Thrown values.  A thrown value is null or an object; an object's        *)
(* properties are the DOMAIN of props.                                     *)

\* new Error(message)
Error(message) == [type |-> "object", multer |-> FALSE, props |-> [message |-> message]]

Null == [type |-> "null"]

\* value.prop does not throw (value is neither null nor undefined)
CanRead(value) == value.type = "object"

HasProp(value, prop) == prop \in DOMAIN value.props

Resolved(value) == [ok |-> TRUE, value |-> value]
Rejected(reason) == [ok |-> FALSE, value |-> reason]

-----------------------------------------------------------------------------
(* generatePdf *)

pdfSections ==
    << [title |-> "Patient Information",
        fields |-> <<patientName, birthDate, surgeryDate>>],
       [title |-> "Planning Information",
        fields |-> <<surgicalGuideType, numberOfImplants, expeditedRequest>>],
       [title |-> "Implant System",
        fields |-> <<implantSystem, implantPositions, implantDimensions, tissueFlapType>>],
       [title |-> "Doctor Information",
        fields |-> <<doctorName, doctorLicense, doctorPhone, doctorAddress, doctorCity,
                     doctorState, doctorZip>>] >>

sectionGap == 20
fieldGap == 15

drawText(text, x, y, size) == [op |-> "drawText", text |-> text, x |-> x, y |-> y, size |-> size]

\* section.fields.forEach(field => { if (formData[field]) { drawText; yPosition -= fieldGap } })
\* yields the operations drawn and the yPosition left
RECURSIVE drawFields(_, _, _)
drawFields(fields, data, yPosition) ==
    IF fields = <<>> THEN [ops |-> <<>>, y |-> yPosition]
    ELSE LET field == Head(fields)
         IN  IF Truthy(data, field)
             THEN LET rest == drawFields(Tail(fields), data, yPosition - fieldGap)
                  IN  [ops |-> <<drawText(formatFieldName(field) \o <<":", " ">> \o data[field],
                                          60, yPosition, 12)>> \o rest.ops,
                       y |-> rest.y]
             ELSE drawFields(Tail(fields), data, yPosition)

\* sections.forEach(section => { heading; yPosition -= sectionGap; fields; yPosition -= sectionGap })
RECURSIVE drawSections(_, _, _)
drawSections(sections, data, yPosition) ==
    IF sections = <<>> THEN <<>>
    ELSE LET section == Head(sections)
             body == drawFields(section.fields, data, yPosition - sectionGap)
         IN  <<drawText(<<section.title, ":">>, 50, yPosition, 14)>>
             \o body.ops
             \o drawSections(Tail(sections), data, body.y - sectionGap)

\* what the font resource at fonts/Roboto-Regular.ttf can be
FontResources == {"present", "missing", "unreadable"}

\* what can fail inside the try block of generatePdf once the data is there
\* (embedding the fallback font, drawing a text the font cannot encode, save)
PdfFaults == {"none", "cannot encode", "save failed"}

\* async function generatePdf(formData): the promise's outcome.  stamp is
\* the clock read for the footer.
generatePdf(data, fontResource, fault, stamp) ==
    IF DOMAIN data = {}
    THEN Rejected(Error(<<"PDF generation", " failed: ", "PDF generation", " failed: ",
                          "No form data provided">>))
    ELSE IF fault # "none"
    THEN Rejected(Error(<<"PDF generation", " failed: ", fault>>))
    ELSE Resolved(
           [font |-> IF fontResource = "present" THEN "Roboto-Regular" ELSE "Helvetica",
            page |-> <<595, 842>>,
            ops  |-> << drawText(<<"Guided Excellence - Case Submission">>, 50, 780, 20),
                        drawText(<<"Case Details">>, 50, 750, 16),
                        [op |-> "drawLine", start |-> <<50, 740>>, end |-> <<545, 740>>,
                         thickness |-> 1] >>
                     \o drawSections(pdfSections, data, 710)
                     \o << drawText(<<"Submitted on: ", stamp>>, 50, 50, 10) >>])

-----------------------------------------------------------------------------
(* generateEmailHtml.  The markup is kept as its element tree. *)

\* the second copy of the section list with two fields of a section swapped
emailSections_Swapped ==
    << [title |-> "Patient Information",
        fields |-> <<patientName, birthDate, surgeryDate>>],
       [title |-> "Planning Information",
        fields |-> <<surgicalGuideType, expeditedRequest, numberOfImplants>>],
       [title |-> "Implant System",
        fields |-> <<implantSystem, implantPositions, implantDimensions, tissueFlapType>>],
       [title |-> "Doctor Information",
        fields |-> <<doctorName, doctorLicense, doctorPhone, doctorAddress, doctorCity,
                     doctorState, doctorZip>>] >>

emailSections ==
    << [title |-> "Patient Information",
        fields |-> <<patientName, birthDate, surgeryDate>>],
       [title |-> "Planning Information",
        fields |-> <<surgicalGuideType, numberOfImplants, expeditedRequest>>],
       [title |-> "Implant System",
        fields |-> <<implantSystem, implantPositions, implantDimensions, tissueFlapType>>],
       [title |-> "Doctor Information",
        fields |-> <<doctorName, doctorLicense, doctorPhone, doctorAddress, doctorCity,
                     doctorState, doctorZip>>] >>

\* strings.join(''): each string of the model is a sequence of elements
RECURSIVE join(_)
join(parts) == IF parts = <<>> THEN <<>> ELSE Head(parts) \o join(Tail(parts))

\* field => formData[field] ? `<p><strong>label:</strong> <span>value</span></p>` : ''
renderField(data, field) ==
    IF Truthy(data, field)
    THEN << [tag |-> "p",
             strong |-> formatFieldName(field) \o <<":">>,
             span |-> data[field]] >>
    ELSE <<>>

renderSection(data, section) ==
    [tag |-> "div",
     h2 |-> section.title,
     body |-> join([i \in 1..Len(section.fields) |-> renderField(data, section.fields[i])])]

generateEmailHtml(data) ==
    [tag |-> "div",
     h1 |-> "New Case Submission",
     sections |-> [i \in 1..Len(emailSections) |-> renderSection(data, emailSections[i])],
     note |-> "This case submission includes a PDF with all details attached."]

-----------------------------------------------------------------------------
(* The requests of the model *)

Range(seq) == { seq[i] : i \in 1..Len(seq) }

RECURSIVE SubsetsUpTo(_, _)
SubsetsUpTo(S, n) ==
    IF n = 0 THEN {{}}
    ELSE LET P == SubsetsUpTo(S, n - 1)
         IN  P \cup { T \cup {x} : T \in P, x \in S }

\* the ways a field can be blank: not submitted, empty, white space only
BlankKinds == {"absent", "empty", "spaces"}

\* a body with every required field filled in, a birth date ten years back
\* and a surgery date thirty days ahead; the fields of blank are blanked the
\* way blank says, link holds the fileLink value when one is submitted
MakeBody(blank, birth, surgery, link) ==
    LET present == (Range(requiredFields) \ { k \in DOMAIN blank : blank[k] = "absent" })
                   \cup (IF link = <<>> THEN {} ELSE {fileLink})
    IN  [ k \in present |->
            IF k \in DOMAIN blank THEN (IF blank[k] = "empty" THEN <<>> ELSE <<" ", "\t">>)
            ELSE IF k = fileLink THEN link[1]
            ELSE IF k = birthDate THEN birth
            ELSE IF k = surgeryDate THEN surgery
            ELSE <<"x">> ]

PastBirth == <<"2014-05-10">>
FutureSurgery == <<"2024-06-09">>
NoBlank == [k \in {} |-> "absent"]
OneFile == << [originalname |-> "scan.dcm", mimetype |-> "application/dicom",
               buffer |-> "bytes-1"] >>

DateValues == { <<text>> : text \in DateTexts }
              \cup { <<" ", "2024-05-10", " ">>, <<"x">> }

LinkValues == { <<>>, << <<>> >>, << <<" ">> >>, << <<" ", "http://files/1", "\t">> >> }

\* requests that leave up to MaxMissing required fields blank
MissingRequests ==
    { [body |-> MakeBody(blank, PastBirth, FutureSurgery, <<>>), files |-> OneFile] :
        blank \in UNION { [S -> BlankKinds] : S \in SubsetsUpTo(Range(requiredFields), MaxMissing) } }

\* requests with every pair of date values
DateRequests ==
    { [body |-> MakeBody(NoBlank, d[1], d[2], <<>>), files |-> OneFile] :
        d \in DateValues \X DateValues }

\* requests with up to MaxFiles files and every fileLink value
AttachmentRequests ==
    { [body |-> MakeBody(NoBlank, PastBirth, FutureSurgery, a[1]), files |-> a[2]] :
        a \in LinkValues \X SeqsUpTo(FileSet, MaxFiles) }

\* requests that break several validation steps at once
CrossRequests ==
    { [body |-> MakeBody(c[1], c[2], c[3], <<>>), files |-> c[4]] :
        c \in { NoBlank, [k \in {doctorPhone} |-> "absent"] }
              \X { PastBirth, FutureSurgery }
              \X { FutureSurgery, PastBirth }
              \X SeqsUpTo({ f \in FileSet : f.originalname = "setup.exe" }, 1) }

Requests == MissingRequests \cup DateRequests \cup AttachmentRequests \cup CrossRequests

-----------------------------------------------------------------------------
(* The handler of POST /SubmitCase *)

NoValue == [type |-> "undefined"]

\* res.status(code).json(body)
Respond(code, body) == responses' = Append(responses, [status |-> code, body |-> body])

Init ==
    /\ req \in Requests
    /\ pc = "entry"
    /\ formData = << >>
    /\ files = << >>
    /\ clock = NoClock
    /\ steps = << >>
    /\ pdfCalls = << >>
    /\ pdfBytes = NoValue
    /\ html = NoValue
    /\ sent = << >>
    /\ accepted = 0
    /\ error = NoValue
    /\ responses = << >>

\* const formData = sanitizeInput(req.body); const files = req.files || []
Enter ==
    /\ pc = "entry"
    /\ formData' = sanitizeInput(req.body)
    /\ files' = req.files
    /\ pc' = "presence"
    /\ UNCHANGED <<req, clock, steps, pdfCalls, pdfBytes, html, sent, accepted, error,
                   responses>>

\* Validate required fields
CheckPresence ==
    /\ pc = "presence"
    /\ steps' = Append(steps, "presence")
    /\ LET missingFields == missingFieldsOf(formData)
       IN  IF Len(missingFields) > 0
           THEN /\ Respond(400, [success |-> FALSE,
                                 error |-> <<"Missing required fields">>,
                                 missingFields |-> [i \in 1..Len(missingFields) |->
                                                     formatFieldName(missingFields[i])]])
                /\ pc' = "done"
           ELSE /\ pc' = "clock"
                /\ UNCHANGED responses
    /\ UNCHANGED <<req, formData, files, clock, pdfCalls, pdfBytes, html, sent, accepted,
                   error>>

\* const today = new Date(); today.setHours(0, 0, 0, 0)
ReadClock ==
    /\ pc = "clock"
    /\ \E now \in NowHours, tz \in TZOffsets :
          clock' = [now |-> now, tz |-> tz, today |-> setHoursZero(now, tz)]
    /\ pc' = "birthDate"
    /\ UNCHANGED <<req, formData, files, steps, pdfCalls, pdfBytes, html, sent, accepted,
                   error, responses>>

\* the birth-date check without its return: the handler responds and goes on
CheckBirthDate_NoReturn ==
    /\ pc = "birthDate"
    /\ steps' = Append(steps, "birthDate")
    /\ IF /\ Truthy(formData, birthDate)
          /\ GreaterEq(newDate(formData[birthDate], clock.tz), clock.today)
       THEN Respond(400, [success |-> FALSE,
                          error |-> <<"Date of Birth must be in the past">>,
                          field |-> "birthDate"])
       ELSE UNCHANGED responses
    /\ pc' = "surgeryDate"
    /\ UNCHANGED <<req, formData, files, clock, pdfCalls, pdfBytes, html, sent, accepted,
                   error>>

CheckBirthDate ==
    /\ pc = "birthDate"
    /\ steps' = Append(steps, "birthDate")
    /\ IF /\ Truthy(formData, birthDate)
          /\ GreaterEq(newDate(formData[birthDate], clock.tz), clock.today)
       THEN /\ Respond(400, [success |-> FALSE,
                             error |-> <<"Date of Birth must be in the past">>,
                             field |-> "birthDate"])
            /\ pc' = "done"
       ELSE /\ pc' = "surgeryDate"
            /\ UNCHANGED responses
    /\ UNCHANGED <<req, formData, files, clock, pdfCalls, pdfBytes, html, sent, accepted,
                   error>>

CheckSurgeryDate ==
    /\ pc = "surgeryDate"
    /\ steps' = Append(steps, "surgeryDate")
    /\ IF /\ Truthy(formData, surgeryDate)
          /\ LessEq(newDate(formData[surgeryDate], clock.tz), clock.today)
       THEN /\ Respond(400, [success |-> FALSE,
                             error |-> <<"Surgery Date must be in the future">>,
                             field |-> "surgeryDate"])
            /\ pc' = "done"
       ELSE /\ pc' = "attachment"
            /\ UNCHANGED responses
    /\ UNCHANGED <<req, formData, files, clock, pdfCalls, pdfBytes, html, sent, accepted,
                   error>>

\* the attachment check with || in place of &&
CheckAttachment_Or ==
    /\ pc = "attachment"
    /\ steps' = Append(steps, "attachment")
    /\ IF Len(files) = 0 \/ ~Truthy(formData, fileLink)
       THEN /\ Respond(400, [success |-> FALSE,
                             error |-> <<"Either an uploaded file or a file link is required">>,
                             field |-> "fileLink"])
            /\ pc' = "done"
       ELSE /\ pc' = "fileTypes"
            /\ UNCHANGED responses
    /\ UNCHANGED <<req, formData, files, clock, pdfCalls, pdfBytes, html, sent, accepted,
                   error>>

\* Validate files: files.length === 0 && !formData.fileLink
CheckAttachment ==
    /\ pc = "attachment"
    /\ steps' = Append(steps, "attachment")
    /\ IF Len(files) = 0 /\ ~Truthy(formData, fileLink)
       THEN /\ Respond(400, [success |-> FALSE,
                             error |-> <<"Either an uploaded file or a file link is required">>,
                             field |-> "fileLink"])
            /\ pc' = "done"
       ELSE /\ pc' = "fileTypes"
            /\ UNCHANGED responses
    /\ UNCHANGED <<req, formData, files, clock, pdfCalls, pdfBytes, html, sent, accepted,
                   error>>

CheckFileTypes ==
    /\ pc = "fileTypes"
    /\ steps' = Append(steps, "fileTypes")
    /\ LET invalidFiles == invalidFilesOf(files)
       IN  IF Len(invalidFiles) > 0
           THEN /\ Respond(400, [success |-> FALSE,
                                 error |-> <<"Invalid file type(s) uploaded">>,
                                 invalidFiles |-> [i \in 1..Len(invalidFiles) |->
                                                    invalidFiles[i].originalname]])
                /\ pc' = "done"
           ELSE /\ pc' = "generatePdf"
                /\ UNCHANGED responses
    /\ UNCHANGED <<req, formData, files, clock, pdfCalls, pdfBytes, html, sent, accepted,
                   error>>

\* what toLocaleString can print in the footer
LocaleStamps == {"5/10/2024, 12:00:00 PM", "5/10/2024, 12:00:01 PM"}

\* const pdfBytes = await generatePdf(formData); a rejection is caught by
\* catch (error)
GeneratePdf ==
    /\ pc = "generatePdf"
    /\ pdfCalls' = Append(pdfCalls, formData)
    /\ \E fontResource \in FontResources, fault \in PdfFaults, stamp \in LocaleStamps :
          LET outcome == generatePdf(formData, fontResource, fault, stamp)
          IN  IF outcome.ok
              THEN /\ pdfBytes' = outcome.value
                   /\ pc' = "sendMail"
                   /\ UNCHANGED error
              ELSE /\ error' = outcome.value
                   /\ pc' = "catch"
                   /\ UNCHANGED pdfBytes
    /\ UNCHANGED <<req, formData, files, clock, steps, html, sent, accepted, responses>>

\* the attachment list with the uploaded files ahead of the document
attachmentsOf_FilesFirst(bytes, fs) ==
    [i \in 1..Len(fs) |-> [filename |-> fs[i].originalname, content |-> fs[i].buffer]]
    \o << [filename |-> "Case_Details.pdf", content |-> bytes] >>

\* Prepare email attachments
attachmentsOf(bytes, fs) ==
    << [filename |-> "Case_Details.pdf", content |-> bytes] >>
    \o [i \in 1..Len(fs) |-> [filename |-> fs[i].originalname, content |-> fs[i].buffer]]

\* const mailOptions = {...}; transporter.sendMail(mailOptions) is invoked
\* (RECIPIENT_EMAIL is left unset)
SendMail ==
    /\ pc = "sendMail"
    /\ html' = generateEmailHtml(formData)
    /\ sent' = Append(sent, [from |-> "Case Submission",
                             to |-> "guideme@guided4excellence.com",
                             subject |-> "New Case Submission",
                             html |-> html',
                             attachments |-> attachmentsOf(pdfBytes, files)])
    /\ pc' = "awaitMail"
    /\ UNCHANGED <<req, formData, files, clock, steps, pdfCalls, pdfBytes, accepted, error,
                   responses>>

\* await transporter.sendMail(mailOptions) resolves
MailAccepted ==
    /\ pc = "awaitMail"
    /\ accepted' = accepted + 1
    /\ Respond(200, [success |-> TRUE,
                     message |-> <<"Case submitted successfully">>,
                     pdfGenerated |-> TRUE,
                     filesAttached |-> Len(files)])
    /\ pc' = "done"
    /\ UNCHANGED <<req, formData, files, clock, steps, pdfCalls, pdfBytes, html, sent, error>>

\* the values transporter.sendMail may reject with: errors with and without
\* a code, objects without a message, null
MailRejections ==
    { [type |-> "object", multer |-> FALSE,
       props |-> [message |-> <<"Invalid login">>, code |-> "EAUTH"]],
      [type |-> "object", multer |-> FALSE,
       props |-> [message |-> <<"Connection timeout">>, code |-> "ETIMEDOUT"]],
      Error(<<"Message failed">>),
      [type |-> "object", multer |-> FALSE, props |-> [code |-> "EAUTH"]],
      [type |-> "object", multer |-> FALSE, props |-> [code |-> "ESOCKET"]],
      Null }

\* await transporter.sendMail(mailOptions) rejects
MailRejected ==
    /\ pc = "awaitMail"
    /\ \E reason \in MailRejections : error' = reason
    /\ pc' = "catch"
    /\ UNCHANGED <<req, formData, files, clock, steps, pdfCalls, pdfBytes, html, sent,
                   accepted, responses>>

\* the response body of the catch block; JSON drops an undefined details
failureBody(errorMessage, err, nodeEnv) ==
    IF nodeEnv = "development" /\ HasProp(err, "message")
    THEN [success |-> FALSE, error |-> errorMessage, details |-> err.props.message]
    ELSE [success |-> FALSE, error |-> errorMessage]

\* catch (error) { ... }.  Reading a property of null, and calling includes
\* on an undefined message, throw a TypeError out of the catch block: the
\* handler's promise rejects and the handler sends nothing.
Catch ==
    /\ pc = "catch"
    /\ \E nodeEnv \in {"development", "production"} :
          IF ~CanRead(error)
          THEN /\ pc' = "rejected"
               /\ UNCHANGED responses
          ELSE IF HasProp(error, "code") /\ error.props.code = "EAUTH"
          THEN /\ Respond(503, failureBody(<<"Email service configuration error">>,
                                           error, nodeEnv))
               /\ pc' = "done"
          ELSE IF error.multer
          THEN /\ Respond(400, failureBody(<<"File upload error: ">> \o error.props.message,
                                           error, nodeEnv))
               /\ pc' = "done"
          ELSE IF ~HasProp(error, "message")
          THEN /\ pc' = "rejected"
               /\ UNCHANGED responses
          ELSE IF includes(error.props.message, "PDF generation")
          THEN /\ Respond(422, failureBody(error.props.message, error, nodeEnv))
               /\ pc' = "done"
          ELSE /\ Respond(500, failureBody(<<"Error submitting case">>, error, nodeEnv))
               /\ pc' = "done"
    /\ UNCHANGED <<req, formData, files, clock, steps, pdfCalls, pdfBytes, html, sent,
                   accepted, error>>

Next ==
    \/ Enter
    \/ CheckPresence
    \/ ReadClock
    \/ CheckBirthDate
    \/ CheckSurgeryDate
    \/ CheckAttachment
    \/ CheckFileTypes
    \/ GeneratePdf
    \/ SendMail
    \/ MailAccepted
    \/ MailRejected
    \/ Catch

Spec == Init /\ [][Next]_vars

-----------------------------------------------------------------------------
(* The two renderers applied to one form-data record *)

schemaFields == UNION { Range(section.fields) : section \in Range(pdfSections) }

\* records over the schema's fields, each field holding its own key as its
\* value: up to MaxMissing fields absent or empty, or at most one field
\* there at all, or one field of white space only
RenderRecords ==
    { [ k \in schemaFields \ { f \in DOMAIN blank : blank[f] = "absent" } |->
          IF k \in DOMAIN blank THEN <<>> ELSE k ] :
        blank \in UNION { [S -> {"absent", "empty"}] : S \in SubsetsUpTo(schemaFields, MaxMissing) } }
    \cup { [ k \in S |-> k ] : S \in SubsetsUpTo(schemaFields, 1) }
    \cup { [ k \in schemaFields |-> IF k = f THEN <<" ">> ELSE k ] : f \in schemaFields }
    \cup { [ k \in {submitterName} |-> <<"x">> ] }

InitRender ==
    /\ formData \in RenderRecords
    /\ req = [body |-> formData, files |-> << >>]
    /\ pc = "render"
    /\ files = << >>
    /\ clock = NoClock
    /\ steps = << >>
    /\ pdfCalls = << >>
    /\ pdfBytes = NoValue
    /\ html = NoValue
    /\ sent = << >>
    /\ accepted = 0
    /\ error = NoValue
    /\ responses = << >>

\* await generatePdf(formData)
RenderPdf ==
    /\ pc = "render"
    /\ pdfCalls = << >>
    /\ pdfCalls' = Append(pdfCalls, formData)
    /\ \E fontResource \in FontResources, fault \in PdfFaults, stamp \in LocaleStamps :
          LET outcome == generatePdf(formData, fontResource, fault, stamp)
          IN  IF outcome.ok
              THEN pdfBytes' = outcome.value /\ UNCHANGED error
              ELSE error' = outcome.value /\ UNCHANGED pdfBytes
    /\ UNCHANGED <<req, pc, formData, files, clock, steps, html, sent, accepted, responses>>

\* generateEmailHtml(formData)
RenderEmail ==
    /\ pc = "render"
    /\ html = NoValue
    /\ html' = generateEmailHtml(formData)
    /\ UNCHANGED <<req, pc, formData, files, clock, steps, pdfCalls, pdfBytes, sent, accepted,
                   error, responses>>

NextRender == RenderPdf \/ RenderEmail

SpecRender == InitRender /\ [][NextRender]_vars

-----------------------------------------------------------------------------
(* Properties.  What a request asks for is read off the request as it was  *)
(* submitted (req), not off the handler's variables.                       *)

Responded == Len(responses) >= 1
resp == responses[1]

\* the validation failure a response reports: 1 missing fields, 2 birth
\* date, 3 surgery date, 4 missing attachment, 5 file type; 0 for any other
Kind(r) ==
    IF r.status # 400 THEN 0
    ELSE IF r.body.error = <<"Missing required fields">> THEN 1
    ELSE IF r.body.error = <<"Date of Birth must be in the past">>
            /\ r.body.field = "birthDate" THEN 2
    ELSE IF r.body.error = <<"Surgery Date must be in the future">>
            /\ r.body.field = "surgeryDate" THEN 3
    ELSE IF r.body.error = <<"Either an uploaded file or a file link is required">> THEN 4
    ELSE IF r.body.error = <<"Invalid file type(s) uploaded">> THEN 5
    ELSE 0

Failed(k) == Responded /\ Kind(resp) = k

ValidationOrder == <<"presence", "birthDate", "surgeryDate", "attachment", "fileTypes">>

\* absent, empty or white space only
Blank(body, k) ==
    k \notin DOMAIN body \/ \A i \in 1..Len(body[k]) : body[k][i] \in WhiteSpace

MissingKeys(body) == { k \in Range(requiredFields) : Blank(body, k) }

AllowList == {"application/octet-stream", "application/dicom", "application/pdf",
              "image/jpeg", "image/png"}

Offending(fs) == { i \in 1..Len(fs) : fs[i].mimetype \notin AllowList }

\* the j-th smallest element of a set of indices
Nth(I, j) == CHOOSE i \in I : Cardinality({ h \in I : h < i }) = j - 1

\* the steps a request violates, the date steps as the handler compares
\* them against the clock it read
ViolatesPresence == MissingKeys(req.body) # {}
ViolatesBirthDate ==
    /\ ~Blank(req.body, birthDate)
    /\ GreaterEq(newDate(trim(req.body[birthDate]), clock.tz), clock.today)
ViolatesSurgeryDate ==
    /\ ~Blank(req.body, surgeryDate)
    /\ LessEq(newDate(trim(req.body[surgeryDate]), clock.tz), clock.today)
ViolatesAttachment == Len(req.files) = 0 /\ Blank(req.body, fileLink)
ViolatesFileTypes == Offending(req.files) # {}

FirstViolated ==
    IF ViolatesPresence THEN 1
    ELSE IF ViolatesBirthDate THEN 2
    ELSE IF ViolatesSurgeryDate THEN 3
    ELSE IF ViolatesAttachment THEN 4
    ELSE IF ViolatesFileTypes THEN 5
    ELSE 0

\* C1: the validation steps run in the order presence, birth date, surgery
\* date, attachment presence, attachment type; the 400 response is that of
\* the earliest step the request violates, and after it no later step runs:
\* generatePdf and sendMail are not invoked and nothing else is sent.
C1_FirstFailureWins ==
    /\ \E n \in 0..Len(ValidationOrder) : steps = SubSeq(ValidationOrder, 1, n)
    /\ (FirstViolated # 0 /\ Len(steps) >= FirstViolated) => Failed(FirstViolated)
    /\ (Responded /\ Kind(resp) # 0) =>
          /\ Kind(resp) = FirstViolated
          /\ steps = SubSeq(ValidationOrder, 1, Kind(resp))
          /\ pc = "done"
          /\ Len(responses) = 1
          /\ pdfCalls = << >>
          /\ sent = << >>

\* a request that violates the birth-date, surgery-date and file-type steps
\* at once was answered with the birth-date failure
C1_Witness ==
    /\ pc = "done"
    /\ Failed(2)
    /\ ViolatesSurgeryDate
    /\ ViolatesFileTypes

\* the label of key k, position by position: the letter k[i] lands at
\* i + (number of upper-case letters among k[1..i]), a space lands ahead of
\* every upper-case letter, and the first character is capitalised
UpperUpTo(k, i) == Cardinality({ u \in 1..i : k[u] \in UpperCase })

LabelOf(k) ==
    [ p \in 1..(Len(k) + UpperUpTo(k, Len(k))) |->
        LET i == CHOOSE j \in 1..Len(k) :
                    \/ j + UpperUpTo(k, j) = p
                    \/ k[j] \in UpperCase /\ j + UpperUpTo(k, j) - 1 = p
        IN  IF i + UpperUpTo(k, i) = p
            THEN (IF p = 1 THEN toUpperCase(k[i]) ELSE k[i])
            ELSE " " ]

\* the labels of the keys of the model
Labels == [ k \in Range(requiredFields) \cup {fileLink} |-> LabelOf(k) ]

MissingIndices(body) == { i \in 1..Len(requiredFields) : requiredFields[i] \in MissingKeys(body) }

\* C2: when a required field is absent, empty or white space only, the
\* handler answers with the missing-fields failure, whose missingFields are
\* the labels of exactly the missing required keys in the order of the
\* required-field list (doctorLicense reads Doctor License); when no
\* required field is blank, no missing-fields failure is returned.
C2_MissingFieldsExact ==
    /\ formatFieldName(doctorLicense)
         = <<"D","o","c","t","o","r"," ","L","i","c","e","n","s","e">>
    /\ Len(steps) >= 1 =>
          IF MissingKeys(req.body) # {}
          THEN /\ Failed(1)
               /\ resp.body.success = FALSE
               /\ resp.body.missingFields =
                     [ j \in 1..Cardinality(MissingIndices(req.body)) |->
                         Labels[requiredFields[Nth(MissingIndices(req.body), j)]] ]
          ELSE ~Failed(1)

\* two required fields were reported missing, one of them submitted as
\* white space only
C2_Witness ==
    /\ Failed(1)
    /\ Len(resp.body.missingFields) = 2
    /\ \E k \in DOMAIN req.body : k \in MissingKeys(req.body) /\ req.body[k] # << >>

\* the calendar day the server's clock shows, and the one a date text names
LocalToday == (clock.now + clock.tz) \div 24
IsDateText(s) == Len(s) = 1 /\ s[1] \in DateTexts

\* C3: a birth date on the server's current calendar day or a later day
\* fails with the birth-date failure; a birth date on an earlier day passes
\* the birth-date check.
C3_BirthDateByCalendarDay ==
    (Len(steps) >= 2 /\ IsDateText(formData[birthDate])) =>
        IF DayOf(formData[birthDate][1]) >= LocalToday
        THEN Failed(2)
        ELSE ~Failed(2)

\* C4: a surgery date on the server's current calendar day or an earlier
\* day fails with the surgery-date failure; a surgery date on a later day
\* passes the surgery-date check.
C4_SurgeryDateByCalendarDay ==
    (Len(steps) >= 3 /\ IsDateText(formData[surgeryDate])) =>
        IF DayOf(formData[surgeryDate][1]) <= LocalToday
        THEN Failed(3)
        ELSE ~Failed(3)

\* C5: of the requests that passed the presence and date checks, one with
\* no file and no non-blank fileLink fails with the missing-attachment
\* failure, and one with a file or a non-blank fileLink passes the
\* attachment-presence check.
C5_AttachmentPresence ==
    Len(steps) >= 4 =>
        IF Len(req.files) = 0 /\ Blank(req.body, fileLink)
        THEN Failed(4) /\ pc = "done"
        ELSE ~Failed(4) /\ (pc = "fileTypes" \/ Len(steps) = 5)

\* a request without files whose fileLink is white space only was answered
\* with the missing-attachment failure
C5_Witness ==
    /\ Failed(4)
    /\ fileLink \in DOMAIN req.body
    /\ req.body[fileLink] # << >>

\* C6: a request that reaches the attachment-type check fails with the
\* invalid-file-type failure exactly when some uploaded file has a MIME type
\* outside the allow-list, and invalidFiles holds the original names of the
\* offending files, and of no other, in upload order.
C6_InvalidFileTypes ==
    Len(steps) = 5 =>
        /\ Failed(5) <=> Offending(req.files) # {}
        /\ Failed(5) =>
              resp.body.invalidFiles =
                 [ j \in 1..Cardinality(Offending(req.files)) |->
                     req.files[Nth(Offending(req.files), j)].originalname ]

\* of two uploaded files the second alone was outside the allow-list and
\* alone was named
C6_Witness ==
    /\ Failed(5)
    /\ Len(req.files) = 2
    /\ Offending(req.files) = {2}
    /\ resp.body.invalidFiles = <<req.files[2].originalname>>

\* C7: a success response is sent only after sendMail accepted the message;
\* sendMail is invoked at most once; when that invocation fails, the request
\* ends with a failure response.
C7_SuccessOnlyAfterAcceptance ==
    /\ \A i \in 1..Len(responses) :
          responses[i].status = 200 => (accepted = 1 /\ Len(sent) = 1)
    /\ Len(sent) <= 1
    /\ (pc \in {"done", "rejected"} /\ Len(sent) = 1 /\ accepted = 0) =>
          (Len(responses) = 1 /\ resp.status # 200 /\ resp.body.success = FALSE)

\* C8: the attachments handed to sendMail are the generated document
\* followed by the uploaded files in upload order, each with its original
\* name and content: n + 1 items for n files.
C8_AttachmentBundle ==
    \A m \in 1..Len(sent) :
        LET attachments == sent[m].attachments
        IN  /\ Len(attachments) = Len(req.files) + 1
            /\ attachments[1].filename = "Case_Details.pdf"
            /\ attachments[1].content = pdfBytes
            /\ \A i \in 1..Len(req.files) :
                  /\ attachments[i + 1].filename = req.files[i].originalname
                  /\ attachments[i + 1].content = req.files[i].buffer

\* a bundle for two different uploaded files was handed to sendMail
C8_Witness ==
    /\ Len(sent) = 1
    /\ Len(req.files) = 2
    /\ req.files[1].originalname # req.files[2].originalname
    /\ Len(sent[1].attachments) = 3

\* C10: every request receives exactly one response: the handler never
\* sends two, and never ends without having sent one.
C10_ExactlyOneResponse ==
    /\ Len(responses) <= 1
    /\ pc \in {"done", "rejected"} => Len(responses) = 1

-----------------------------------------------------------------------------
(* What the two renderings surface *)

\* the position of the first ":" of a text
FirstColon(text) ==
    CHOOSE i \in 1..Len(text) : text[i] = ":" /\ \A h \in 1..(i - 1) : text[h] # ":"

\* the (section title, field label, value) triples of a document, read off
\* its drawing operations: a heading (x 50, size 14) opens a section, a
\* field line (x 60, size 12) reads "label: value"
RECURSIVE PdfTriplesFrom(_, _)
PdfTriplesFrom(ops, title) ==
    IF ops = << >> THEN << >>
    ELSE LET o == Head(ops)
         IN  IF o.op = "drawText" /\ o.x = 50 /\ o.size = 14
             THEN PdfTriplesFrom(Tail(ops), o.text[1])
             ELSE IF o.op = "drawText" /\ o.x = 60 /\ o.size = 12
             THEN << << title,
                        SubSeq(o.text, 1, FirstColon(o.text) - 1),
                        SubSeq(o.text, FirstColon(o.text) + 2, Len(o.text)) >> >>
                  \o PdfTriplesFrom(Tail(ops), title)
             ELSE PdfTriplesFrom(Tail(ops), title)

PdfTriples(doc) == PdfTriplesFrom(doc.ops, "")

\* the section headings of a document, in order
PdfTitles(doc) ==
    LET headings == SelectSeq(doc.ops, LAMBDA o : o.op = "drawText" /\ o.x = 50 /\ o.size = 14)
    IN  [ i \in 1..Len(headings) |-> headings[i].text[1] ]

\* the triples of a markup tree: per section, per paragraph, the heading,
\* the strong text without its colon, the span text
RECURSIVE HtmlTriplesFrom(_)
HtmlTriplesFrom(sections) ==
    IF sections = << >> THEN << >>
    ELSE LET section == Head(sections)
         IN  [ i \in 1..Len(section.body) |->
                 << section.h2,
                    SubSeq(section.body[i].strong, 1, Len(section.body[i].strong) - 1),
                    section.body[i].span >> ]
             \o HtmlTriplesFrom(Tail(sections))

HtmlTriples(tree) == HtmlTriplesFrom(tree.sections)

HtmlTitles(tree) == [ i \in 1..Len(tree.sections) |-> tree.sections[i].h2 ]

\* a sequence of triples has exactly one line for every schema field the
\* record holds a non-empty value for, with the field's label and value,
\* and no line with an empty value
Faithful(triples, data) ==
    /\ \A k \in schemaFields :
          (k \in DOMAIN data /\ data[k] # << >>)
          <=> \E i \in 1..Len(triples) : triples[i][2] = Labels[k] /\ triples[i][3] = data[k]
    /\ \A i \in 1..Len(triples) : triples[i][3] # << >>
    /\ Len(triples) = Cardinality({ k \in schemaFields : k \in DOMAIN data /\ data[k] # << >> })

\* C9: the document and the markup rendered from one record surface the
\* same sequence of (section title, field label, value) triples and the
\* same section headings in the same order; each has a line for a field
\* exactly when the record holds a non-empty value for it, and none for an
\* absent or empty field.
C9_RendererParity ==
    /\ pdfBytes # NoValue => Faithful(PdfTriples(pdfBytes), formData)
    /\ html # NoValue => Faithful(HtmlTriples(html), formData)
    /\ (pdfBytes # NoValue /\ html # NoValue) =>
          /\ PdfTriples(pdfBytes) = HtmlTriples(html)
          /\ PdfTitles(pdfBytes) = HtmlTitles(html)

\* both renderings exist for a record with an absent field, an empty field
\* and a field of the second section that is there
C9_Witness ==
    /\ pc = "render"
    /\ pdfBytes # NoValue
    /\ html # NoValue
    /\ \E k \in schemaFields : k \notin DOMAIN formData
    /\ \E k \in DOMAIN formData : formData[k] = << >>
    /\ \E i \in 1..Len(HtmlTriples(html)) : HtmlTriples(html)[i][1] = "Planning Information"

====
